---- MODULE Spec2Model ----
(***************************************************************************)
(* Model of aiohttp_sse_client.EventSource                                 *)
(* (src/aiohttp_sse_client/aiohttp_sse_client.py).                         *)
(*                                                                         *)
(* Text is modelled as sequences of one-character strings; the bytes of    *)
(* the response body are modelled the same way, with "0xC3" "0xA9" the     *)
(* two-byte UTF-8 encoding of U+00E9 and "0xFF" a byte that is never valid *)
(* UTF-8.                                                                  *)
(***************************************************************************)
EXTENDS Integers, Sequences, FiniteSets, TLC

\* ---------------------------------------------------------------- bounds
MaxLines == 3
MaxConnects == 2
\* chunks read on the one connection of ParseSpec
MaxParseLines == 5

\* ------------------------------------------------------------- constants
READY_STATE_CONNECTING == 0
READY_STATE_OPEN == 1
READY_STATE_CLOSED == 2

\* timedelta(seconds=5), kept in milliseconds
DEFAULT_RECONNECTION_TIME == 5000

CONTENT_TYPE_EVENT_STREAM == "text/event-stream"

\* Python's None where a str is expected: a one-element sequence that no
\* text over one-character strings equals.
NoneStr == <<"<None>">>

\* self._response = None
NoResponse == [id |-> 0, status |-> 0]

\* the MessageEvent slot of a result that carries no MessageEvent
NoEvent == [type |-> NoneStr, message |-> NoneStr, data |-> NoneStr,
            origin |-> NoneStr, last_event_id |-> NoneStr]

\* ------------------------------------------------------- string helpers
RECURSIVE RStrip(_, _)
\* str.rstrip(c): every trailing c is removed
RStrip(s, c) ==
    IF Len(s) > 0 /\ s[Len(s)] = c THEN RStrip(SubSeq(s, 1, Len(s) - 1), c)
    ELSE s

RECURSIVE LStrip(_, _)
\* str.lstrip(c): every leading c is removed
LStrip(s, c) ==
    IF Len(s) > 0 /\ s[1] = c THEN LStrip(Tail(s), c)
    ELSE s

\* c in s
Contains(s, c) == \E i \in 1..Len(s) : s[i] = c

\* index of the first c in s (s contains c)
FirstIndex(s, c) == CHOOSE i \in 1..Len(s) : s[i] = c /\ \A j \in 1..(i - 1) : s[j] # c

\* s.split(c, 1) for s containing c
SplitFirst(s, c) ==
    LET i == FirstIndex(s, c)
    IN  <<SubSeq(s, 1, i - 1), SubSeq(s, i + 1, Len(s))>>

\* bytes.decode('utf8'): ok is FALSE where Python raises UnicodeDecodeError
RECURSIVE Utf8Decode(_)
Utf8Decode(b) ==
    IF Len(b) = 0 THEN [ok |-> TRUE, text |-> <<>>]
    ELSE IF b[1] = "0xFF" \/ b[1] = "0xA9" THEN [ok |-> FALSE, text |-> <<>>]
    ELSE IF b[1] = "0xC3" THEN
        IF Len(b) >= 2 /\ b[2] = "0xA9" THEN
            LET r == Utf8Decode(SubSeq(b, 3, Len(b)))
            IN  [ok |-> r.ok, text |-> IF r.ok THEN <<"U+00E9">> \o r.text ELSE <<>>]
        ELSE [ok |-> FALSE, text |-> <<>>]
    ELSE
        LET r == Utf8Decode(Tail(b))
        IN  [ok |-> r.ok, text |-> IF r.ok THEN <<b[1]>> \o r.text ELSE <<>>]

Digits == {"0", "1", "2", "3", "4", "5", "6", "7", "8", "9"}

DigitVal(c) ==
    CASE c = "0" -> 0 [] c = "1" -> 1 [] c = "2" -> 2 [] c = "3" -> 3
      [] c = "4" -> 4 [] c = "5" -> 5 [] c = "6" -> 6 [] c = "7" -> 7
      [] c = "8" -> 8 [] c = "9" -> 9

RECURSIVE DecimalVal(_)
DecimalVal(s) ==
    IF Len(s) = 0 THEN 0
    ELSE 10 * DecimalVal(SubSeq(s, 1, Len(s) - 1)) + DigitVal(s[Len(s)])

\* int(s) taking every text without digits for 0
ParseIntLax(s) ==
    LET t    == RStrip(LStrip(s, " "), " ")
        good == Len(t) > 0 /\ \A i \in 1..Len(t) : t[i] \in Digits
    IN  [ok |-> TRUE, val |-> IF good THEN DecimalVal(t) ELSE 0]

\* int(s): surrounding blanks are dropped, an optional sign, then digits;
\* ok is FALSE where Python raises ValueError
ParseInt(s) ==
    LET t    == RStrip(LStrip(s, " "), " ")
        neg  == Len(t) > 0 /\ t[1] = "-"
        sgn  == Len(t) > 0 /\ t[1] \in {"-", "+"}
        body == IF sgn THEN Tail(t) ELSE t
        good == Len(body) > 0 /\ \A i \in 1..Len(body) : body[i] \in Digits
    IN  [ok |-> good,
         val |-> IF good THEN (IF neg THEN 0 - DecimalVal(body) ELSE DecimalVal(body))
                 ELSE 0]

\* ------------------------------------------------- what the server sends
\* HTTP statuses a connect attempt may obtain
Statuses == {200, 404}

\* str(response.real_url.origin())
Origins == {<<"o">>}

\* Chunks the StreamReader hands out: it splits on LF only, each chunk keeps
\* its LF, and the tail before EOF may lack one.
RawLines ==
    { <<"\n">>,
      <<"\r", "\n">>,
      <<"d", "a", "t", "a", ":", "a", "\n">>,
      <<"d", "a", "t", "a", ":", " ", "a", "\r", "\n">>,
      <<"d", "a", "t", "a", ":", " ", " ", "a", "\n">>,
      <<"d", "a", "t", "a", ":", "\n">>,
      <<"d", "a", "t", "a", "\n">>,
      <<"d", "a", "t", "a", ":", "a">>,
      <<"d", "a", "t", "a", ":", "b", ":", "\r", "i", "d", ":", "1", "\n">>,
      <<"i", "d", ":", "1", "\n">>,
      <<"i", "d", "\n">>,
      <<"e", "v", "e", "n", "t", ":", "a", "\n">>,
      <<"r", "e", "t", "r", "y", ":", " ", "7", "\n">>,
      <<"r", "e", "t", "r", "y", ":", "a", "\n">>,
      <<":", "a", "\n">>,
      <<"x", ":", "a", "\n">>,
      <<"d", "a", "t", "a", ":", "0xC3", "0xA9", "\n">>,
      <<"d", "a", "t", "a", ":", "0xFF", "\n">> }

\* ------------------------------------------------------------------ state
VARIABLES
    ready_state,          \* self._ready_state
    need_close_session,   \* self._need_close_session
    session_closed,       \* self._session.closed
    response,             \* self._response
    origin,               \* self._origin
    last_event_id,        \* self._last_event_id
    event_id,             \* self._event_id
    event_type,           \* self._event_type
    event_data,           \* self._event_data
    reconnection_time,    \* self._reconnection_time, in milliseconds
    headers,              \* self._kwargs['headers'], as the GET carries them
    content_eof,          \* self._response.content has reached EOF
    pc,                   \* where the consumer's task is suspended
    scope,                \* where the consumer is relative to `async with`
    result,               \* what the last completed call handed the caller
    nread,                \* chunks read so far
    nconn,                \* connect attempts so far
    block_data,           \* history: data values processed since the last dispatch
    block_pure,           \* history: only data fields processed since the last dispatch
    last_status,          \* history: status obtained by the latest connect attempt, 0 if none
    step,                 \* history: the line the loop body has just processed, and what held before it
    block_fresh,          \* history: no field line processed since the last dispatch
    id_seen,              \* history: an id field processed since the last dispatch
    carry                 \* history: lastEventId of this connection's latest MessageEvent, no id field since

vars == <<ready_state, need_close_session, session_closed, response, origin,
          last_event_id, event_id, event_type, event_data, reconnection_time,
          headers, content_eof, pc, scope, result, nread, nconn,
          block_data, block_pure, last_status, step, block_fresh, id_seen,
          carry>>

HeaderNames == {"Accept", "Last-Event-ID", "Last-Event_ID", "Cache-Control"}

Result(op, kind, cause, event) ==
    [op |-> op, kind |-> kind, cause |-> cause, event |-> event]

\* the history of a step in which the loop body of __anext__ did not run
NoStep == [line |-> NoneStr, fresh |-> TRUE, carry |-> NoneStr]

\* the history variables of the parser across a step that processes no line
NoLine ==
    /\ step' = NoStep
    /\ UNCHANGED <<block_fresh, id_seen>>

\* EventSource.__init__
Init ==
    /\ ready_state = READY_STATE_CONNECTING
    /\ need_close_session \in BOOLEAN
    /\ session_closed = FALSE
    /\ response = NoResponse
    /\ origin = NoneStr
    /\ last_event_id = <<>>
    /\ event_id = <<>>
    /\ event_type = <<>>
    /\ event_data = <<>>
    /\ reconnection_time = DEFAULT_RECONNECTION_TIME
    /\ headers = [h \in HeaderNames |-> NoneStr]
    /\ content_eof = FALSE
    /\ pc = "idle"
    /\ scope = "new"
    /\ result = Result("__init__", "return", "none", NoEvent)
    /\ nread = 0
    /\ nconn = 0
    /\ block_data = <<>>
    /\ block_pure = TRUE
    /\ last_status = 0
    /\ step = NoStep
    /\ block_fresh = TRUE
    /\ id_seen = FALSE
    /\ carry = NoneStr

\* ------------------------------------------------ field parser, dispatch
\* _process_field storing the value of an event field in the id buffer
ProcessFieldEventSetsId(b, field_name, field_value) ==
    IF field_name = <<"e", "v", "e", "n", "t">> THEN
        [b EXCEPT !.event_id = field_value]
    ELSE IF field_name = <<"d", "a", "t", "a">> THEN
        [b EXCEPT !.event_data = (b.event_data \o field_value) \o <<"\n">>]
    ELSE IF field_name = <<"i", "d">> THEN
        [b EXCEPT !.event_id = field_value]
    ELSE IF field_name = <<"r", "e", "t", "r", "y">> THEN
        LET n == ParseInt(field_value)
        IN  IF n.ok THEN [b EXCEPT !.reconnection_time = n.val] ELSE b
    ELSE b

\* EventSource._process_field on the buffers
\* b = [event_type, event_data, event_id, reconnection_time]
ProcessField(b, field_name, field_value) ==
    IF field_name = <<"e", "v", "e", "n", "t">> THEN
        [b EXCEPT !.event_type = field_value]
    ELSE IF field_name = <<"d", "a", "t", "a">> THEN
        [b EXCEPT !.event_data = (b.event_data \o field_value) \o <<"\n">>]
    ELSE IF field_name = <<"i", "d">> THEN
        [b EXCEPT !.event_id = field_value]
    ELSE IF field_name = <<"r", "e", "t", "r", "y">> THEN
        LET n == ParseInt(field_value)
        IN  IF n.ok THEN [b EXCEPT !.reconnection_time = n.val] ELSE b
    ELSE b

\* the trimming of self._event_data in _dispatch_event
TrimData(data) == RStrip(data, "\n")

\* _dispatch_event clearing the id buffer along with type and data
DispatchEventResetId(b, org) ==
    IF b.event_data = <<>> THEN
        [last_event_id |-> b.event_id,
         buf |-> [b EXCEPT !.event_type = <<>>, !.event_id = <<>>],
         emitted |-> FALSE,
         message |-> NoEvent]
    ELSE
        [last_event_id |-> b.event_id,
         buf |-> [b EXCEPT !.event_type = <<>>, !.event_data = <<>>,
                           !.event_id = <<>>],
         emitted |-> TRUE,
         message |-> [type |-> IF b.event_type # <<>> THEN b.event_type ELSE NoneStr,
                      message |-> b.event_type,
                      data |-> RStrip(b.event_data, "\n"),
                      origin |-> org,
                      last_event_id |-> b.event_id]]

\* _dispatch_event clearing the id buffer when there is no data to dispatch
DispatchEventClearsId(b, org) ==
    IF b.event_data = <<>> THEN
        [last_event_id |-> b.event_id,
         buf |-> [b EXCEPT !.event_type = <<>>, !.event_id = <<>>],
         emitted |-> FALSE,
         message |-> NoEvent]
    ELSE
        [last_event_id |-> b.event_id,
         buf |-> [b EXCEPT !.event_type = <<>>, !.event_data = <<>>],
         emitted |-> TRUE,
         message |-> [type |-> IF b.event_type # <<>> THEN b.event_type ELSE NoneStr,
                      message |-> b.event_type,
                      data |-> RStrip(b.event_data, "\n"),
                      origin |-> org,
                      last_event_id |-> b.event_id]]

\* _dispatch_event without its test for empty data
DispatchEventEmitsEmpty(b, org) ==
    [last_event_id |-> b.event_id,
     buf |-> [b EXCEPT !.event_type = <<>>, !.event_data = <<>>],
     emitted |-> TRUE,
     message |-> [type |-> IF b.event_type # <<>> THEN b.event_type ELSE NoneStr,
                  message |-> b.event_type,
                  data |-> RStrip(b.event_data, "\n"),
                  origin |-> org,
                  last_event_id |-> b.event_id]]

\* EventSource._dispatch_event: the buffers after it, and what it returns
DispatchEvent(b, org) ==
    IF b.event_data = <<>> THEN
        [last_event_id |-> b.event_id,
         buf |-> [b EXCEPT !.event_type = <<>>],
         emitted |-> FALSE,
         message |-> NoEvent]
    ELSE
        [last_event_id |-> b.event_id,
         buf |-> [b EXCEPT !.event_type = <<>>, !.event_data = <<>>],
         emitted |-> TRUE,
         message |-> [type |-> IF b.event_type # <<>> THEN b.event_type ELSE NoneStr,
                      message |-> b.event_type,
                      data |-> TrimData(b.event_data),
                      origin |-> org,
                      last_event_id |-> b.event_id]]

\* line.rstrip('\n').rstrip('\r')
StripLine(text) == RStrip(RStrip(text, "\n"), "\r")

\* the name and value __anext__ hands to _process_field for a field line
FieldOf(line) ==
    IF Contains(line, ":") THEN
        LET fields == SplitFirst(line, ":")
        IN  [name |-> fields[1], value |-> LStrip(fields[2], " ")]
    ELSE [name |-> line, value |-> <<>>]

Buffers == [event_type |-> event_type, event_data |-> event_data,
            event_id |-> event_id, reconnection_time |-> reconnection_time]

SetBuffers(b) ==
    /\ event_type' = b.event_type
    /\ event_data' = b.event_data
    /\ event_id' = b.event_id
    /\ reconnection_time' = b.reconnection_time

\* --------------------------------------------------------------- connect
\* __aenter__ -> _connect up to `await self._session.get(...)`: the headers
\* are written and the GET is issued
AenterCall ==
    /\ pc = "idle"
    /\ scope # "entered"
    /\ nconn < MaxConnects
    /\ headers' = [headers EXCEPT !["Accept"] = <<CONTENT_TYPE_EVENT_STREAM>>,
                                  !["Last-Event_ID"] = last_event_id,
                                  !["Cache-Control"] = <<"no-cache">>]
    /\ pc' = "connecting"
    /\ nconn' = nconn + 1
    /\ NoLine
    /\ UNCHANGED carry
    /\ UNCHANGED <<ready_state, need_close_session, session_closed, response,
                   origin, last_event_id, event_id, event_type, event_data,
                   reconnection_time, content_eof, scope, result, nread,
                   block_data, block_pure, last_status>>

\* the test `response.status >= 400` of _connect
ConnectFailed(status) == status >= 400

\* EventSource._connected
Connected(rs) == IF rs # READY_STATE_CLOSED THEN READY_STATE_OPEN ELSE rs

\* _connect from the response of the GET on, and the return of __aenter__
ConnectResponse(status, org) ==
    /\ pc = "connecting"
    /\ ~session_closed
    /\ IF ConnectFailed(status) THEN
           UNCHANGED <<ready_state, response, origin, content_eof,
                       block_data, block_pure>>
       ELSE
           /\ ready_state' = Connected(ready_state)
           /\ response' = [id |-> nconn, status |-> status]
           /\ origin' = org
           /\ content_eof' = FALSE
           /\ block_data' = <<>>
           /\ block_pure' = (event_data = <<>> /\ event_type = <<>>)
    /\ pc' = "idle"
    /\ scope' = "entered"
    /\ result' = Result("__aenter__", "return", "none", NoEvent)
    /\ last_status' = status
    /\ NoLine
    /\ carry' = IF ConnectFailed(status) THEN carry ELSE NoneStr
    /\ UNCHANGED <<need_close_session, session_closed, last_event_id, event_id,
                   event_type, event_data, reconnection_time, headers, nread,
                   nconn>>

\* `await self._session.get(...)` raises: a transport error, or RuntimeError
\* from a session that is closed; __aenter__ propagates it and the body of
\* `async with` is not entered, so __aexit__ is not called
ConnectError ==
    /\ pc = "connecting"
    /\ pc' = "idle"
    /\ scope' = "enter_failed"
    /\ result' = Result("__aenter__",
                        IF session_closed THEN "RuntimeError" ELSE "ClientError",
                        "none", NoEvent)
    /\ last_status' = 0
    /\ NoLine
    /\ UNCHANGED carry
    /\ UNCHANGED <<ready_state, need_close_session, session_closed, response,
                   origin, last_event_id, event_id, event_type, event_data,
                   reconnection_time, headers, content_eof, nread, nconn,
                   block_data, block_pure>>

\* -------------------------------------------------------------- teardown
\* __aexit__ closing the session whoever owns it
ClosedAfterExitAlways(need_close, closed) == TRUE

\* self._session.closed after __aexit__
ClosedAfterExit(need_close, closed) == IF need_close THEN TRUE ELSE closed

\* EventSource.__aexit__
Aexit ==
    /\ pc = "idle"
    /\ scope = "entered"
    /\ session_closed' = ClosedAfterExit(need_close_session, session_closed)
    /\ scope' = "exited"
    /\ result' = Result("__aexit__", "return", "none", NoEvent)
    /\ NoLine
    /\ UNCHANGED carry
    /\ UNCHANGED <<ready_state, need_close_session, response, origin,
                   last_event_id, event_id, event_type, event_data,
                   reconnection_time, headers, content_eof, pc, nread, nconn,
                   block_data, block_pure, last_status>>

\* ------------------------------------------------------------- iteration
\* __anext__ without its test of self._response
ResponseMissingNever(r) == FALSE

\* `not self._response`
ResponseMissing(r) == r = NoResponse

\* __anext__ up to its first read: ValueError without a response
AnextCall ==
    /\ pc = "idle"
    /\ IF ResponseMissing(response) THEN
           /\ result' = Result("__anext__", "ValueError", "no_response", NoEvent)
           /\ pc' = "idle"
       ELSE
           /\ ~session_closed
           /\ pc' = "reading"
           /\ UNCHANGED result
    /\ NoLine
    /\ UNCHANGED carry
    /\ UNCHANGED <<ready_state, need_close_session, session_closed, response,
                   origin, last_event_id, event_id, event_type, event_data,
                   reconnection_time, headers, content_eof, scope, nread,
                   nconn, block_data, block_pure, last_status>>

\* comment lines taken for empty ones
LineKindCommentBlank(line) ==
    IF line = <<>> \/ line[1] = ":" THEN "blank" ELSE "field"

\* the tests `line == ''` and `line[0] == ':'` of the loop body
LineKind(line) ==
    IF line = <<>> THEN "blank"
    ELSE IF line[1] = ":" THEN "comment"
    ELSE "field"

\* one pass of the loop body of __anext__ over a decoded, stripped line
HandleLine(line) ==
    /\ step' = [line |-> line, fresh |-> block_fresh, carry |-> carry]
    /\ IF LineKind(line) = "blank" THEN
           LET d == DispatchEvent(Buffers, origin)
           IN  /\ last_event_id' = d.last_event_id
               /\ SetBuffers(d.buf)
               /\ block_data' = <<>>
               /\ block_pure' = TRUE
               /\ block_fresh' = TRUE
               /\ id_seen' = FALSE
               /\ IF d.emitted THEN
                      /\ result' = Result("__anext__", "MessageEvent", "dispatch", d.message)
                      /\ pc' = "idle"
                      /\ carry' = d.message.last_event_id
                  ELSE UNCHANGED <<result, pc, carry>>
       ELSE IF LineKind(line) = "comment" THEN
           UNCHANGED <<last_event_id, event_id, event_type, event_data,
                       reconnection_time, result, pc, block_data, block_pure,
                       block_fresh, id_seen, carry>>
       ELSE
           LET f == FieldOf(line)
           IN  /\ SetBuffers(ProcessField(Buffers, f.name, f.value))
               /\ block_data' = IF f.name = <<"d", "a", "t", "a">>
                                THEN Append(block_data, f.value) ELSE block_data
               /\ block_pure' = (block_pure /\ f.name = <<"d", "a", "t", "a">>)
               /\ block_fresh' = FALSE
               /\ id_seen' = (id_seen \/ f.name = <<"i", "d">>)
               /\ carry' = IF f.name = <<"i", "d">> THEN NoneStr ELSE carry
               /\ UNCHANGED <<last_event_id, result, pc>>

\* a chunk the decoder rejects, as the history records it
Undecodable == <<"<undecodable>">>

\* the loop of __anext__ receives one chunk from self._response.content,
\* at most max chunks in all
ReadLineWithin(raw, max) ==
    /\ pc = "reading"
    /\ ~content_eof
    /\ nread < max
    /\ nread' = nread + 1
    /\ content_eof' = (raw[Len(raw)] # "\n")
    /\ LET dec == Utf8Decode(raw)
       IN  IF ~dec.ok THEN
               /\ result' = Result("__anext__", "UnicodeDecodeError", "decode", NoEvent)
               /\ pc' = "idle"
               /\ step' = [line |-> Undecodable, fresh |-> block_fresh, carry |-> carry]
               /\ UNCHANGED <<last_event_id, event_id, event_type, event_data,
                              reconnection_time, block_data, block_pure,
                              block_fresh, id_seen, carry>>
           ELSE HandleLine(StripLine(dec.text))
    /\ UNCHANGED <<ready_state, need_close_session, session_closed, response,
                   origin, headers, scope, nconn, last_status>>

ReadLine(raw) == ReadLineWithin(raw, MaxLines)

\* what __anext__ hands the caller when the loop over the content ends
EofResult == Result("__anext__", "None", "eof", NoEvent)

\* the content is exhausted: the `async for` ends and __anext__ falls off
\* its end
ReadEof ==
    /\ pc = "reading"
    /\ content_eof' = TRUE
    /\ result' = EofResult
    /\ pc' = "idle"
    /\ NoLine
    /\ UNCHANGED carry
    /\ UNCHANGED <<ready_state, need_close_session, session_closed, response,
                   origin, last_event_id, event_id, event_type, event_data,
                   reconnection_time, headers, scope, nread, nconn,
                   block_data, block_pure, last_status>>

\* the consumer's task is cancelled while suspended in the GET or in a read
Cancel ==
    /\ pc \in {"connecting", "reading"}
    /\ result' = Result(IF pc = "connecting" THEN "__aenter__" ELSE "__anext__",
                        "CancelledError", "cancel", NoEvent)
    /\ scope' = IF pc = "connecting" THEN "enter_failed" ELSE scope
    /\ pc' = "idle"
    /\ last_status' = IF pc = "connecting" THEN 0 ELSE last_status
    /\ NoLine
    /\ UNCHANGED carry
    /\ UNCHANGED <<ready_state, need_close_session, session_closed, response,
                   origin, last_event_id, event_id, event_type, event_data,
                   reconnection_time, headers, content_eof, nread, nconn,
                   block_data, block_pure>>

Next ==
    \/ AenterCall
    \/ \E status \in Statuses, org \in Origins : ConnectResponse(status, org)
    \/ ConnectError
    \/ Aexit
    \/ AnextCall
    \/ \E raw \in RawLines : ReadLine(raw)
    \/ ReadEof
    \/ Cancel

Spec == Init /\ [][Next]_vars

\* ParseSpec: one consumer on the first connection only, with a longer body
FirstConnect == nconn = 0 /\ AenterCall

ParseReadLine(raw) == ReadLineWithin(raw, MaxParseLines)

ParseNext ==
    \/ FirstConnect
    \/ \E status \in Statuses, org \in Origins : ConnectResponse(status, org)
    \/ ConnectError
    \/ Aexit
    \/ AnextCall
    \/ \E raw \in RawLines : ParseReadLine(raw)
    \/ ReadEof
    \/ Cancel

ParseSpec == Init /\ [][ParseNext]_vars

\* ================================================================ claims
RECURSIVE JoinLF(_)
\* the values joined by "\n"
JoinLF(vs) ==
    IF Len(vs) = 0 THEN <<>>
    ELSE IF Len(vs) = 1 THEN vs[1]
    ELSE (vs[1] \o <<"\n">>) \o JoinLF(Tail(vs))

\* C1: every step of __anext__ delivers a MessageEvent or the end of the
\* iteration; the EOF of one connection's body neither ends the iteration
\* nor hands the consumer a value that is not a MessageEvent.
C1_EofHandsOverOnlyEvents ==
    (result.op = "__anext__" /\ result.cause = "eof")
        => result.kind = "MessageEvent"

\* C2: when the body of the current connection ends while readyState is not
\* CLOSED, the EventSource re-enters CONNECTING and re-runs the connect
\* procedure; __anext__ does not hand control back on EOF with the
\* EventSource still OPEN and no connect under way.
C2_EofReentersConnecting ==
    (pc = "idle" /\ result.cause = "eof" /\ ready_state # READY_STATE_CLOSED)
        => ready_state = READY_STATE_CONNECTING

\* C4: once the `async with` block is left through __aexit__, readyState is
\* CLOSED.
C4_TeardownEntersClosed ==
    scope = "exited" => ready_state = READY_STATE_CLOSED

\* C5: readyState is OPEN only if the most recent connect attempt obtained
\* a response with HTTP status < 400.
C5_OpenOnlyAfterLatestSuccess ==
    ready_state = READY_STATE_OPEN => (last_status # 0 /\ last_status < 400)

\* C6: a connect failure (status >= 400 or transport error) is not raised
\* to the caller, neither from __aenter__ nor from the __anext__ that
\* follows it.
C6_ConnectFailureNotRaised ==
    /\ ~(result.op = "__aenter__" /\ result.kind = "ClientError")
    /\ ~(result.op = "__anext__" /\ result.kind = "ValueError"
            /\ last_status >= 400)

\* C7: __anext__ on an EventSource on which no connect was run raises
\* ValueError at once: nothing is read, and readyState, lastEventId and the
\* scratch buffers are unchanged.
C7_UseBeforeConnectRaises ==
    [][(nconn = 0 /\ pc = "idle"
            /\ ((result' # result /\ result'.op = "__anext__") \/ pc' = "reading"))
          => /\ result'.kind = "ValueError"
             /\ pc' = "idle"
             /\ nread' = nread
             /\ UNCHANGED <<ready_state, last_event_id, event_id, event_type,
                            event_data, reconnection_time, response, origin>>]_vars

C7_Witness ==
    /\ nconn = 0
    /\ result.op = "__anext__"
    /\ result.kind = "ValueError"
    /\ nread = 0

\* C8: a session the EventSource created itself is closed once the
\* `async with` statement is over, both when the block was entered and
\* left and when the connect inside __aenter__ failed with an error.
C8_OwnedSessionClosedOnTeardown ==
    (need_close_session /\ pc = "idle"
        /\ (scope = "exited"
            \/ (scope = "enter_failed" /\ result.kind = "ClientError")))
        => session_closed

\* C9: a session supplied by the caller is never closed by the EventSource.
C9_SuppliedSessionNeverClosed ==
    ~need_close_session => ~session_closed

C9_Witness ==
    /\ ~need_close_session
    /\ scope = "exited"
    /\ ~session_closed

\* C10: a block of one or more data fields ended by a blank line produces
\* exactly one MessageEvent whose data is the field values in arrival order
\* joined by "\n".
C10_DataIsValuesJoined ==
    [][(pc = "reading" /\ block_pure /\ block_data # <<>>
            /\ nread' # nread /\ block_data' = <<>>)
          => /\ result'.kind = "MessageEvent"
             /\ pc' = "idle"
             /\ result'.event.data = JoinLF(block_data)]_vars

\* a step in which the loop body of __anext__ processes a decoded line
LineStep == pc = "reading" /\ nread' = nread + 1 /\ step'.line # Undecodable

\* a step in which __anext__ returns a MessageEvent
EmitStep == LineStep /\ pc' = "idle" /\ result'.kind = "MessageEvent"

\* C11: within one connection, after a MessageEvent dispatched with id v,
\* a later MessageEvent whose block has no id field (none since that event)
\* has lastEventId v.
C11_IdCarriedForward ==
    [][(EmitStep /\ carry # NoneStr)
          => result'.event.last_event_id = carry]_vars

C11_Witness ==
    /\ step.line = <<>>
    /\ step.carry = <<"1">>
    /\ result.kind = "MessageEvent"
    /\ result.event.last_event_id = <<"1">>
    /\ pc = "idle"

\* C12: a blank line with no field line since the last dispatch produces no
\* MessageEvent, leaves eventData and eventType empty and lastEventId as it
\* was, and the loop goes on to the next line.
C12_BlankOnFreshBlock ==
    [][(LineStep /\ step'.line = <<>> /\ block_fresh)
          => /\ result' = result
             /\ pc' = "reading"
             /\ event_data' = <<>>
             /\ event_type' = <<>>
             /\ last_event_id' = last_event_id]_vars

C12_Witness ==
    /\ step.line = <<>>
    /\ step.fresh
    /\ pc = "reading"
    /\ last_event_id = <<"1">>
    /\ event_data = <<>>

\* the line is a retry field
IsRetryLine(l) ==
    \/ l = <<"r", "e", "t", "r", "y">>
    \/ (Contains(l, ":") /\ SubSeq(l, 1, FirstIndex(l, ":") - 1) = <<"r", "e", "t", "r", "y">>)

C14_PartialBlockDiscarded ==
    [][(response' # response)
          => /\ event_data' = <<>>
             /\ event_type' = <<>>
             /\ (last_event_id # <<>>
                    => headers'["Last-Event-ID"] = last_event_id)]_vars

\* C15: a line starting with ":" changes no state and dispatches nothing;
\* between two data lines it neither adds to the data nor ends the block.
C15_CommentIgnored ==
    [][(LineStep /\ step'.line # <<>> /\ step'.line[1] = ":")
          => UNCHANGED <<event_type, event_data, event_id, last_event_id,
                         reconnection_time, ready_state, result, pc,
                         block_data>>]_vars

C15_Witness ==
    /\ step.line = <<":", "a">>
    /\ event_data = <<"a", "\n">>
    /\ block_data = <<<<"a">>>>
    /\ pc = "reading"

\* the text without one trailing "\n", if it has one
TrimOne(data) ==
    IF Len(data) > 0 /\ data[Len(data)] = "\n" THEN SubSeq(data, 1, Len(data) - 1)
    ELSE data

\* C16 as stated: a dispatch whose eventData is empty after trimming the
\* trailing newline emits no MessageEvent.
C16_EmptyAfterTrimNotEmitted ==
    [][(LineStep /\ step'.line = <<>> /\ TrimOne(event_data) = <<>>)
          => (result' = result /\ pc' = "reading")]_vars

\* C16 as amended: a dispatch whose eventData is empty before trimming (no
\* data field since the last dispatch) emits no MessageEvent and resets the
\* type buffer; a block of one data field with an empty value is
\* dispatched as a MessageEvent with empty data.
C16_EmptyDataNotEmitted ==
    [][(LineStep /\ step'.line = <<>>)
          => /\ (event_data = <<>>
                    => (result' = result /\ pc' = "reading" /\ event_type' = <<>>))
             /\ (event_data = <<"\n">>
                    => (EmitStep /\ result'.event.data = <<>>))]_vars

C16_Witness ==
    /\ step.line = <<>>
    /\ ~step.fresh
    /\ pc = "reading"
    /\ event_type = <<>>
    /\ event_data = <<>>

\* the name of a field line that contains ":"
NameOf(l) == SubSeq(l, 1, FirstIndex(l, ":") - 1)

\* what follows the first ":" of the line, without one leading space
OneSpaceValue(l) ==
    LET v == SubSeq(l, FirstIndex(l, ":") + 1, Len(l))
    IN  IF Len(v) > 0 /\ v[1] = " " THEN Tail(v) ELSE v

\* C17: a line containing ":" that does not start with ":" is split at its
\* first ":" and the value is what follows it with exactly one leading
\* space removed.
C17_OneLeadingSpaceRemoved ==
    [][(LineStep /\ step'.line # <<>> /\ step'.line[1] # ":"
            /\ Contains(step'.line, ":"))
          => /\ (NameOf(step'.line) = <<"d", "a", "t", "a">>
                    => event_data' = (event_data \o OneSpaceValue(step'.line)) \o <<"\n">>)
             /\ (NameOf(step'.line) = <<"i", "d">>
                    => event_id' = OneSpaceValue(step'.line))
             /\ (NameOf(step'.line) = <<"e", "v", "e", "n", "t">>
                    => event_type' = OneSpaceValue(step'.line))]_vars

\* the line is an id field
IsIdLine(l) ==
    \/ l = <<"i", "d">>
    \/ (Contains(l, ":") /\ NameOf(l) = <<"i", "d">>)

\* C18 as stated: lastEventId changes only in the dispatch at a blank line
\* and only when the block carried an id field with a non-empty value.
C18_ChangesOnlyWithNonEmptyId ==
    [][(last_event_id' # last_event_id)
          => (LineStep /\ step'.line = <<>> /\ id_seen /\ event_id # <<>>)]_vars

\* C18 as amended: lastEventId changes only in the dispatch at a blank line
\* and only when an id field, of whatever value, was processed since the
\* previous dispatch; an id field by itself changes only the eventId
\* buffer.
C18_ChangesOnlyAtDispatchAfterId ==
    [][/\ (last_event_id' # last_event_id)
             => (LineStep /\ step'.line = <<>> /\ id_seen)
       /\ (LineStep /\ IsIdLine(step'.line))
             => UNCHANGED <<last_event_id, event_type, event_data,
                            reconnection_time, result, pc>>]_vars

C18_Witness ==
    /\ nread = 2
    /\ step.line = <<>>
    /\ last_event_id = <<"1">>
    /\ event_id = <<"1">>

\* C19: a chunk that is not valid UTF-8 is not raised to the consumer as an
\* error of __anext__.
C19_DecodeErrorNotRaised ==
    ~(result.op = "__anext__" /\ result.kind = "UnicodeDecodeError")

\* C20: CR, LF and CRLF each end a line, so no line handed to the parser
\* contains a CR or an LF.
C20_LinesHoldNoTerminator ==
    ~Contains(step.line, "\r") /\ ~Contains(step.line, "\n")

====
